---- MODULE Spec2Model ----
(***************************************************************************)
(* Model of the deet debugger (proj-1/deet): the Debugger command loop of  *)
(* debugger.rs driving one traced inferior through inferior.rs.  The       *)
(* inferior is a small byte-coded program in a byte-addressable memory     *)
(* that is read and written one 8-byte word at a time, as ptrace does.     *)
(* The LinkedList of week3/linked_list is modelled next to it.             *)
(***************************************************************************)
EXTENDS Integers, Sequences, FiniteSets, TLC

(* ---------------------------- bounds ----------------------------------- *)
MaxBps == 2        \* longest Debugger::breakpoints list explored
MaxRuns == 2       \* number of processes a session may spawn
MaxLoops == 1      \* iterations of the target's loop
MaxFrames == 2     \* frames that fit into the stack memory of the unwinder runs
MaxPushes == 6     \* push_front calls on one LinkedList

(* ------------------------- the traced target --------------------------- *)
WordSize == 8
MemSize == 16
INT3 == 204        \* 0xcc, the trap byte
NOP == 144
INC == 64
JLOOP == 235
EXIT == 195
CALLNULL == 232    \* a call through a null function pointer
Entry == 7
LoopTarget == 8
MainFrame == 16    \* rbp in main: its stack is outside the modelled bytes
NoByte == -1       \* Option<u8>::None
UsizeRange == 256  \* usize, narrowed to 8 bits: every address of the model is below

Addr == 0 .. (MemSize - 1)
Byte == {0, NOP, INC, JLOOP, EXIT, CALLNULL, INT3}

\* The two targets: padding, first statement, second statement, loop, exit.
ProgInc == [a \in Addr |-> CASE a = 6 -> NOP
                             [] a = 7 -> INC
                             [] a = 8 -> INC
                             [] a = 9 -> JLOOP
                             [] a = 10 -> EXIT
                             [] OTHER -> 0]
ProgNop == [a \in Addr |-> CASE a = 6 -> NOP
                             [] a = 7 -> NOP
                             [] a = 8 -> NOP
                             [] a = 9 -> JLOOP
                             [] a = 10 -> EXIT
                             [] OTHER -> 0]
\* A target that calls through a null pointer in its second statement.
ProgNull == [a \in Addr |-> CASE a = 6 -> NOP
                              [] a = 7 -> NOP
                              [] a = 8 -> CALLNULL
                              [] a = 9 -> JLOOP
                              [] a = 10 -> EXIT
                              [] OTHER -> 0]
Programs == {ProgInc, ProgNop, ProgNull}

\* Addresses a Break command can resolve to; 16 is outside the mapped memory.
BpAddrs == {6, 8, 9, 16}

(* ------------------------------ Status --------------------------------- *)
Stopped(signal, pc) == [kind |-> "Stopped", sig |-> signal, code |-> -1, pc |-> pc]
Exited(code) == [kind |-> "Exited", sig |-> "", code |-> code, pc |-> -1]
Signaled(signal) == [kind |-> "Signaled", sig |-> signal, code |-> -1, pc |-> -1]
NoStatus == [kind |-> "None", sig |-> "", code |-> -1, pc |-> -1]

\* nix WaitStatus, as waitpid returns it: no instruction pointer in it.
WExited(code) == [kind |-> "Exited", sig |-> "", code |-> code, pc |-> -1]
WSignaled(signal) == [kind |-> "Signaled", sig |-> signal, code |-> -1, pc |-> -1]
WStopped(signal) == [kind |-> "Stopped", sig |-> signal, code |-> -1, pc |-> -1]

(* ------------------------------ the CPU -------------------------------- *)
\* c = [rip, rbp, acc, loops, execs, trapped]: instruction pointer, base
\* pointer, accumulator (the exit code), loop iterations left, how often the
\* instruction stored at each address has been executed, and the address of
\* the trap byte whose execution caused the latest stop (-1: none did).
InitCpu(n) ==
    [rip |-> Entry, rbp |-> MainFrame, acc |-> 0, loops |-> n,
     execs |-> [a \in Addr |-> 0], trapped |-> -1]

Ran(c) == [c.execs EXCEPT ![c.rip] = @ + 1]

\* One machine instruction.  ev: "none" (ran on), "trap", "exit", "fault".
Exec1(m, c) ==
    IF c.rip \notin Addr THEN [ev |-> "fault", c |-> [c EXCEPT !.trapped = -1]]
    ELSE CASE m[c.rip] = INT3 ->
                [ev |-> "trap", c |-> [c EXCEPT !.rip = @ + 1, !.trapped = c.rip]]
           [] m[c.rip] = NOP ->
                [ev |-> "none",
                 c |-> [c EXCEPT !.rip = @ + 1, !.execs = Ran(c), !.trapped = -1]]
           [] m[c.rip] = INC ->
                [ev |-> "none",
                 c |-> [c EXCEPT !.rip = @ + 1, !.acc = @ + 1, !.execs = Ran(c),
                                 !.trapped = -1]]
           [] m[c.rip] = JLOOP ->
                [ev |-> "none",
                 c |-> IF c.loops > 0
                       THEN [c EXCEPT !.rip = LoopTarget, !.loops = @ - 1,
                                      !.execs = Ran(c), !.trapped = -1]
                       ELSE [c EXCEPT !.rip = @ + 1, !.execs = Ran(c), !.trapped = -1]]
           [] m[c.rip] = CALLNULL ->
                [ev |-> "none", c |-> [c EXCEPT !.rip = 0, !.execs = Ran(c), !.trapped = -1]]
           [] m[c.rip] = EXIT ->
                [ev |-> "exit", c |-> [c EXCEPT !.execs = Ran(c), !.trapped = -1]]
           [] OTHER -> [ev |-> "fault", c |-> [c EXCEPT !.trapped = -1]]

\* What waitpid reports for the event that ended the run.
EventStatus(r) ==
    CASE r.ev = "exit" -> WExited(r.c.acc)
      [] r.ev = "fault" -> WStopped("SIGSEGV")
      [] OTHER -> WStopped("SIGTRAP")

\* PTRACE_SINGLESTEP: one instruction, then a SIGTRAP stop.
SingleStep(m, c) ==
    LET r == Exec1(m, c) IN [status |-> EventStatus(r), c |-> r.c]

\* PTRACE_CONT: run until the next trap, fault or exit.
RECURSIVE FreeRun(_, _)
FreeRun(m, c) ==
    LET r == Exec1(m, c)
    IN IF r.ev = "none" THEN FreeRun(m, r.c)
       ELSE [status |-> EventStatus(r), c |-> r.c]

\* The exit code of the target when it runs outside the debugger.
NativeExit(p, n) == FreeRun(p, InitCpu(n)).status

(* --------------------------- Memory Patcher ---------------------------- *)
\* x = [bps, mem, cpu, live, log, waits, panic]: the Inferior's table, the
\* traced process's memory and registers, whether the process still exists,
\* the ptrace requests issued so far, what each waitpid returned, and whether
\* an expect()/unwrap() failed.
Op(o) == [op |-> o, addr |-> -1, val |-> -1]
Peek(a) == [op |-> "peek", addr |-> a, val |-> -1]
Poke(a, v) == [op |-> "poke", addr |-> a, val |-> v]
SetRegs(rip) == [op |-> "setregs", addr |-> -1, val |-> rip]

\* addr & -(size_of::<usize>())
align_addr_to_word(addr) == addr - (addr % WordSize)

\* ptrace::read / ptrace::write succeed on a live process and a mapped word.
WordMapped(a) == a \in Addr /\ (a + WordSize - 1) \in Addr
CanAccess(x, a) == x.live /\ WordMapped(a)

\* The word at a, little-endian: byte i is bits 8i .. 8i+7.
ReadWord(m, a) == [i \in 0 .. (WordSize - 1) |-> m[a + i]]
StoreWord(m, a, w) ==
    [b \in Addr |-> IF b \in a .. (a + WordSize - 1) THEN w[b - a] ELSE m[b]]

\* a | b on bytes
RECURSIVE ByteOr(_, _)
ByteOr(a, b) ==
    IF a = 0 THEN b
    ELSE IF b = 0 THEN a
    ELSE 2 * ByteOr(a \div 2, b \div 2) + (IF a % 2 = 1 \/ b % 2 = 1 THEN 1 ELSE 0)

\* Mutant of ExtractByte: the word is not shifted.
ExtractByte_NoShift(word, byte_offset) == word[0]

\* (word >> 8 * byte_offset) & 0xff
ExtractByte(word, byte_offset) == word[byte_offset]

\* Mutant of ClearByte: the mask is not shifted.
ClearByte_NoShift(word, byte_offset) == [word EXCEPT ![0] = 0]

\* word & !(0xff << 8 * byte_offset)
ClearByte(word, byte_offset) == [word EXCEPT ![byte_offset] = 0]

\* masked_word | ((val as u64) << 8 * byte_offset)
PutByte(masked_word, byte_offset, val) ==
    [masked_word EXCEPT ![byte_offset] = ByteOr(@, val)]

\* Result<u8, nix::Error>: [ok, orig, x]
write_byte(x, addr, val) ==
    LET aligned_addr == align_addr_to_word(addr)
        byte_offset == addr - aligned_addr
    IN IF ~CanAccess(x, aligned_addr)
       THEN [ok |-> FALSE, orig |-> NoByte,
             x |-> [x EXCEPT !.log = Append(@, Peek(aligned_addr))]]
       ELSE LET word == ReadWord(x.mem, aligned_addr)
                orig_byte == ExtractByte(word, byte_offset)
                masked_word == ClearByte(word, byte_offset)
                updated_word == PutByte(masked_word, byte_offset, val)
            IN [ok |-> TRUE, orig |-> orig_byte,
                x |-> [x EXCEPT !.mem = StoreWord(@, aligned_addr, updated_word),
                                !.log = @ \o <<Peek(aligned_addr), Poke(addr, val)>>]]

(* --------------------------- Breakpoint Table --------------------------- *)
EmptyBps == [a \in {} |-> NoByte]
Insert(bps, k, v) == [a \in (DOMAIN bps) \cup {k} |-> IF a = k THEN v ELSE bps[a]]

\* for breakpoint in breakpoints.iter() { write_byte(..).expect(..); insert }
RECURSIVE PatchBreakpoints(_, _)
\* Mutant of Patched: the loop ends after its first breakpoint.
Patched_FirstOnly(w, list) ==
    IF ~w.ok THEN [w.x EXCEPT !.panic = TRUE]
    ELSE [w.x EXCEPT !.bps = Insert(@, Head(list), w.orig)]

Patched(w, list) ==
    IF ~w.ok THEN [w.x EXCEPT !.panic = TRUE]
    ELSE PatchBreakpoints([w.x EXCEPT !.bps = Insert(@, Head(list), w.orig)], Tail(list))

PatchBreakpoints(x, list) ==
    IF list = <<>> THEN x ELSE Patched(write_byte(x, Head(list), INT3), list)

\* Inferior::set_breakpoint: install one breakpoint in the live process.
Installed(w, addr) ==
    IF w.ok THEN [ok |-> TRUE, x |-> [w.x EXCEPT !.bps = Insert(@, addr, w.orig)]]
    ELSE [ok |-> FALSE, x |-> w.x]

set_breakpoint(x, addr) ==
    IF addr \in DOMAIN x.bps /\ x.bps[addr] # NoByte
    THEN [ok |-> TRUE, x |-> x]
    ELSE Installed(write_byte(x, addr, INT3), addr)

(* ------------------------- Inferior Controller -------------------------- *)
\* waitpid: the event that ended the run r, or the death by an outside signal.
waitpid(r, killed) ==
    IF killed THEN WSignaled("SIGKILL") ELSE r.status

\* Mutant of FromWaitStatus: the stop is reported without reading the registers.
FromWaitStatus_NoRegs(w, regs) ==
    CASE w.kind = "Exited" -> Exited(w.code)
      [] w.kind = "Signaled" -> Signaled(w.sig)
      [] OTHER -> Stopped(w.sig, 0)

\* The match of Inferior::wait on the WaitStatus; regs: what getregs gives.
FromWaitStatus(w, regs) ==
    CASE w.kind = "Exited" -> Exited(w.code)
      [] w.kind = "Signaled" -> Signaled(w.sig)
      [] OTHER -> Stopped(w.sig, regs.rip)

\* Inferior::wait
wait(r, killed) == FromWaitStatus(waitpid(r, killed), r.c)

Dead(st) == st.kind \in {"Exited", "Signaled"}

\* Whether the debugger was built with overflow checks (the debug profile)
\* or without them (the release profile); fixed for a session.
VARIABLE overflow_checks

\* instruction_ptr - 1 on usize: with overflow checks 0 - 1 panics, without
\* them it wraps around.
SubOverflows(instruction_ptr) == instruction_ptr = 0
WrappingPred(instruction_ptr) == (instruction_ptr - 1) % UsizeRange

\* Mutant of Armed: a saved byte equal to the trap byte counts as no byte.
Armed_NotTrap(bps, instruction_ptr) ==
    /\ WrappingPred(instruction_ptr) \in DOMAIN bps
    /\ bps[WrappingPred(instruction_ptr)] \notin {NoByte, INT3}

\* if let Some((&addr, &Some(orig_byte))) = bps.get_key_value(&(ip - 1))
Armed(bps, instruction_ptr) ==
    /\ WrappingPred(instruction_ptr) \in DOMAIN bps
    /\ bps[WrappingPred(instruction_ptr)] # NoByte

\* The Result of wake_and_wait with what it did: ret is "Ok", "Err" or
\* "Panic"; hit: the step-over ran; stepStatus: the status of its wait;
\* contIssued, contMem: ptrace::cont was called, on this memory; lookupBps:
\* the table at the lookup.
Outcome(ret, st, hit, stepStatus, contIssued, x) ==
    [ret |-> ret, status |-> st, hit |-> hit, stepStatus |-> stepStatus,
     contIssued |-> contIssued, contMem |-> x.mem, lookupBps |-> x.bps, x |-> x]

\* self.wait(None) after ptrace::cont: the returned status.
Waited(x, r, st, hit, stepStatus, k2) ==
    [Outcome("Ok", st, hit, stepStatus, TRUE, x) EXCEPT
        !.x = [x EXCEPT !.cpu = IF k2 THEN @ ELSE r.c,
                        !.live = ~Dead(st),
                        !.log = @ \o <<Op("cont"), Op("wait")>>,
                        !.waits = Append(@, waitpid(r, k2))]]

\* ptrace::cont, then wait: the tail of wake_and_wait.
ContAndWaitOn(x, r, hit, stepStatus, k2) == Waited(x, r, wait(r, k2), hit, stepStatus, k2)

ContAndWait(x, hit, stepStatus, k2) ==
    ContAndWaitOn(x, FreeRun(x.mem, x.cpu), hit, stepStatus, k2)

\* Mutant of ReArm: the trap byte is not written back.
ReArm_Skipped(x, instruction_ptr) == x

\* self.write_byte(instruction_ptr - 1, 0xcc)
ReArm(x, instruction_ptr) == write_byte(x, instruction_ptr - 1, INT3).x

\* Mutant of AfterStep: every status of the step re-arms and continues.
AfterStep_NoEarlyReturn(x, st, instruction_ptr, k2) ==
    ContAndWait(ReArm(x, instruction_ptr), TRUE, st, k2)

\* The match on the single step's status.
AfterStep(x, st, instruction_ptr, k2) ==
    IF Dead(st)
    THEN Outcome("Ok", st, TRUE, st, FALSE, [x EXCEPT !.live = FALSE])
    ELSE ContAndWait(ReArm(x, instruction_ptr), TRUE, st, k2)

\* ptrace::step, then self.wait(None).unwrap()
Stepped(x, r, instruction_ptr, k1, k2) ==
    AfterStep([x EXCEPT !.cpu = IF k1 THEN @ ELSE r.c, !.log = Append(@, Op("wait")),
                        !.waits = Append(@, waitpid(r, k1))],
              wait(r, k1), instruction_ptr, k2)

\* regs.rip = instruction_ptr - 1; ptrace::setregs; ptrace::step
Rewound(x, instruction_ptr, k1, k2) ==
    Stepped(x, SingleStep(x.mem, x.cpu), instruction_ptr, k1, k2)

\* The step-over: restore the byte, rewind rip, single-step, wait.
StepOver(x, instruction_ptr, k1, k2) ==
    Rewound([write_byte(x, instruction_ptr - 1, x.bps[instruction_ptr - 1]).x EXCEPT
                !.cpu.rip = instruction_ptr - 1,
                !.log = @ \o <<SetRegs(instruction_ptr - 1), Op("step")>>],
            instruction_ptr, k1, k2)

\* wake_and_wait from ptrace::getregs on.
Resume(x, k1, k2) ==
    IF x.panic THEN Outcome("Panic", NoStatus, FALSE, NoStatus, FALSE, x)
    ELSE IF ~x.live
    THEN Outcome("Err", NoStatus, FALSE, NoStatus, FALSE,
                 [x EXCEPT !.log = Append(@, Op("getregs"))])
    ELSE IF overflow_checks /\ SubOverflows(x.cpu.rip)
    THEN Outcome("Panic", NoStatus, FALSE, NoStatus, FALSE,
                 [x EXCEPT !.log = Append(@, Op("getregs"))])
    ELSE IF Armed(x.bps, x.cpu.rip)
    THEN StepOver([x EXCEPT !.log = Append(@, Op("getregs"))], x.cpu.rip, k1, k2)
    ELSE ContAndWait([x EXCEPT !.log = Append(@, Op("getregs"))], FALSE, NoStatus, k2)

\* Inferior::wake_and_wait(&mut self, breakpoints); k1 and k2 say whether an
\* outside SIGKILL ends the process during the first and the second wait.
Inferior_wake_and_wait(x, breakpoints_, k1, k2) ==
    Resume(PatchBreakpoints(x, breakpoints_), k1, k2)

\* The process image at the initial stop.
Fresh(tgt) ==
    [bps |-> EmptyBps, mem |-> tgt.image, cpu |-> InitCpu(tgt.loops),
     live |-> TRUE, log |-> <<>>, waits |-> <<>>, panic |-> FALSE]

\* Some(inferior) after the breakpoint loop, unless an expect() failed.
Launched(x, ps) ==
    [some |-> ~x.panic, panic |-> x.panic, ps |-> Append(ps, "live"), x |-> x]

\* Inferior::new(target, args, breakpoints).  spawn: "ok", "spawnfail"
\* (cmd.spawn() is Err) or "nostop" (the first wait event is not a stop).
\* The new process gets the next pid; ps is the process table.
Inferior_new(tgt, breakpoints_, spawn, ps) ==
    CASE spawn = "spawnfail" ->
           [some |-> FALSE, panic |-> FALSE, ps |-> ps, x |-> Fresh(tgt)]
      [] spawn = "nostop" ->
           [some |-> FALSE, panic |-> FALSE, ps |-> Append(ps, "reaped"), x |-> Fresh(tgt)]
      [] OTHER -> Launched(PatchBreakpoints(Fresh(tgt), breakpoints_), ps)

(* --------------------------- Symbol Provider ---------------------------- *)
\* DwarfData: dd = [line, func], the line and the function of each address
\* that has debug information; 0 and "" stand for None.
get_line_from_addr(dd, a) == IF a \in DOMAIN dd.line THEN dd.line[a] ELSE 0
get_function_from_addr(dd, a) == IF a \in DOMAIN dd.func THEN dd.func[a] ELSE ""

\* Debugger::dwarf_data of the targets: the statements of main are at
\* Entry .. Entry + 3, those of a function "helper" follow at Entry + 4 and
\* Entry + 5; no other address has debug information.
dwarf_data ==
    [line |-> [a \in Entry .. (Entry + 5) |-> a - Entry + 1],
     func |-> [a \in Entry .. (Entry + 5) |-> IF a <= Entry + 3 THEN "main" ELSE "helper"]]

(* ------------------------------- Unwinder ------------------------------- *)
\* ptrace::read(..) as usize on the byte memory: the value of the word at a.
\* Values of 2^16 and more keep their two low bytes; all lie outside the memory.
WordValue(w) ==
    w[0] + 256 * w[1] + (IF \E i \in 2 .. (WordSize - 1) : w[i] # 0 THEN 65536 ELSE 0)
WordsOf(m) == [a \in {b \in Addr : WordMapped(b)} |-> WordValue(ReadWord(m, a))]

\* One printed frame; ip and bp are the registers it was printed from.
Frame(dd, ip, bp) ==
    [func |-> get_function_from_addr(dd, ip), line |-> get_line_from_addr(dd, ip),
     ip |-> ip, bp |-> bp]

BtResult(state, frames) == [state |-> state, frames |-> frames]

\* instruction_ptr = read(base_ptr + 8)?; base_ptr = read(base_ptr)?
NextFrame(words, bp) ==
    IF (bp + WordSize) \notin DOMAIN words \/ bp \notin DOMAIN words
    THEN [ok |-> FALSE, ip |-> 0, bp |-> 0]
    ELSE [ok |-> TRUE, ip |-> words[bp + WordSize], bp |-> words[bp]]

\* The loop of print_backtrace.  seen: the (ip, bp) the loop has been at; the
\* inferior is stopped, so being there again means the loop never ends ("Hang").
RECURSIVE BtLoop(_, _, _, _, _, _)
BtNext(dd, words, n, frames, seen) ==
    IF ~n.ok THEN BtResult("Err", frames)
    ELSE IF <<n.ip, n.bp>> \in seen THEN BtResult("Hang", frames)
    ELSE BtLoop(dd, words, n.ip, n.bp, frames, seen)

BtLoop(dd, words, ip, bp, frames, seen) ==
    IF get_line_from_addr(dd, ip) = 0 \/ get_function_from_addr(dd, ip) = ""
    THEN BtResult("Panic", frames)
    ELSE IF get_function_from_addr(dd, ip) = "main"
    THEN BtResult("Ok", Append(frames, Frame(dd, ip, bp)))
    ELSE BtNext(dd, words, NextFrame(words, bp), Append(frames, Frame(dd, ip, bp)),
                seen \cup {<<ip, bp>>})

\* Inferior::print_backtrace(&self, dwarf_data)
print_backtrace(live, regs, words, dd) ==
    IF ~live THEN BtResult("Err", <<>>)
    ELSE BtLoop(dd, words, regs.rip, regs.rbp, <<>>, {})

(* ------------------------- LinkedList (week3) --------------------------- *)
\* Option<Box<Node<T>>>: NoNode is None, Node_new(value, next) a boxed node.
NoNode == [some |-> FALSE]
Node_new(value, next) == [some |-> TRUE, value |-> value, next |-> next]
NoValue == 0      \* Option<T>::None; the values pushed are 1, 2, ...

\* l = [head, size]
LinkedList_new == [head |-> NoNode, size |-> 0]
get_size(l) == l.size
is_empty(l) == get_size(l) = 0

push_front(l, value) == [head |-> Node_new(value, l.head), size |-> l.size + 1]

\* Mutant of pop_front: the size is decremented on the empty list too.
pop_front_NoEarlyReturn(l) ==
    IF ~l.head.some THEN [ret |-> NoValue, l |-> [l EXCEPT !.size = (@ - 1) % UsizeRange]]
    ELSE [ret |-> l.head.value, l |-> [head |-> l.head.next, size |-> l.size - 1]]

\* [ret, l]: the Option<T> returned and the list afterwards
pop_front(l) ==
    IF ~l.head.some THEN [ret |-> NoValue, l |-> l]
    ELSE [ret |-> l.head.value, l |-> [head |-> l.head.next, size |-> l.size - 1]]

\* A list with what was done to it: pushes made, the last operation and its
\* result, the values pushed and not yet popped, and those before a pop.
NewList ==
    [l |-> LinkedList_new, pushes |-> 0, op |-> "new", ret |-> NoValue,
     unpopped |-> {}, popFrom |-> {}]

(* ------------------------------ Debugger -------------------------------- *)
VARIABLES
    session,      \* "prompt" (in the command loop), "done" (run returned), "panicked"
    target,       \* the executable: [image, loops]
    inferior,     \* Debugger::inferior: [some, pid, bps]
    breakpoints,  \* Debugger::breakpoints
    procs,        \* process table: pid -> "live", "zombie" (killed, not waited for), "reaped"
    mem,          \* memory of the process spawned last
    cpu,          \* registers of the process spawned last
    last,         \* what the last command did (observations only)
    stack,        \* words of the inferior's stack: address -> value
    wb,           \* a direct call of write_byte: its arguments and its result
    list          \* a LinkedList<T> of week3 (see below)

vars ==
    <<session, target, inferior, breakpoints, procs, mem, cpu, last, stack, wb,
      overflow_checks, list>>

None == [some |-> FALSE, pid |-> 0, bps |-> EmptyBps]
Some(pid, bps) == [some |-> TRUE, pid |-> pid, bps |-> bps]
NoAddr == -1      \* the Break argument did not resolve to an address

NoObs(cmd) ==
    [cmd |-> cmd, out |-> "", ret |-> "None", status |-> NoStatus, hit |-> FALSE,
     stepStatus |-> NoStatus, contIssued |-> FALSE, contMem |-> target.image,
     log |-> <<>>, waits |-> <<>>, ip |-> -1, lookupBps |-> EmptyBps, list |-> <<>>,
     spawn |-> "", killed |-> 0, newSome |-> FALSE, newBps |-> EmptyBps,
     newMem |-> target.image, frames |-> <<>>]

\* The stack of a target stopped in main: no frame below it is mapped.
NoStack == [a \in {} |-> 0]

WbIdle(m) ==
    [phase |-> "idle", addr |-> 0, val |-> 0, ok |-> FALSE, orig |-> NoByte,
     before |-> m, log |-> <<>>]

IsLive(slot, ps) == slot.some /\ ps[slot.pid] = "live"

\* Mutant of kill: no signal is sent.
kill_NoSignal(slot, ps) == [ok |-> TRUE, ps |-> ps]

\* Inferior::kill through Child::kill: SIGKILL to the pid.
kill(slot, ps) ==
    IF ps[slot.pid] = "reaped" THEN [ok |-> FALSE, ps |-> ps]
    ELSE [ok |-> TRUE, ps |-> [ps EXCEPT ![slot.pid] = "zombie"]]

\* Debugger::clean
Cleaned(slot, k) ==
    [ps |-> k.ps, killed |-> slot.pid, out |-> IF k.ok THEN "Killed" ELSE "Failed to kill"]

clean(slot, ps) ==
    IF slot.some THEN Cleaned(slot, kill(slot, ps))
    ELSE [ps |-> ps, killed |-> 0, out |-> ""]

\* The arms of the match in Debugger::wake_and_wait.
Report(r) ==
    CASE r.ret = "Panic" ->
           IF r.x.panic THEN "Failed to set breakpoint"
           ELSE "attempt to subtract with overflow"
      [] r.ret = "Err" -> "Error waking up the inferior and waiting"
      [] r.status.kind = "Stopped" ->
           IF get_line_from_addr(dwarf_data, r.status.pc) # 0
           THEN "Child stopped, Stopped at" ELSE "Child stopped"
      [] r.status.kind = "Exited" -> "Child exited"
      [] OTHER -> "Child signaled"

Woken(slot, ps, r) ==
    [r |-> r,
     slot |-> Some(slot.pid, r.x.bps),
     ps |-> IF IsLive(slot, ps) /\ ~r.x.live THEN [ps EXCEPT ![slot.pid] = "reaped"] ELSE ps,
     out |-> Report(r)]

\* The Inferior in the slot with its process.
Proc(slot, ps, m, c) ==
    [bps |-> slot.bps, mem |-> m, cpu |-> c, live |-> IsLive(slot, ps),
     log |-> <<>>, waits |-> <<>>, panic |-> FALSE]

\* Debugger::wake_and_wait on the slot (which the callers know to be Some).
Debugger_wake_and_wait(slot, ps, m, c, k1, k2) ==
    Woken(slot, ps, Inferior_wake_and_wait(Proc(slot, ps, m, c), breakpoints, k1, k2))

Resumed(cmd, d, ip0) ==
    [NoObs(cmd) EXCEPT !.out = d.out, !.ret = d.r.ret, !.status = d.r.status,
                       !.hit = d.r.hit, !.stepStatus = d.r.stepStatus,
                       !.contIssued = d.r.contIssued, !.contMem = d.r.contMem,
                       !.log = d.r.x.log, !.waits = d.r.x.waits, !.list = breakpoints,
                       !.ip = IF d.r.ret = "Ok" THEN ip0 ELSE -1,
                       !.lookupBps = d.r.lookupBps]

\* The state after Debugger::wake_and_wait returned d.
Wake(obs, d) ==
    /\ inferior' = d.slot
    /\ procs' = d.ps
    /\ mem' = d.r.x.mem
    /\ cpu' = d.r.x.cpu
    /\ session' = IF d.r.ret = "Panic" THEN "panicked" ELSE "prompt"
    /\ last' = obs

Init ==
    /\ session = "prompt"
    /\ target \in [image : Programs, loops : 0 .. MaxLoops]
    /\ inferior = None
    /\ breakpoints = <<>>
    /\ procs = <<>>
    /\ mem = target.image
    /\ cpu = InitCpu(target.loops)
    /\ last = NoObs("")
    /\ stack = NoStack
    /\ wb = WbIdle(target.image)
    /\ overflow_checks \in BOOLEAN
    /\ list = NewList

\* DebuggerCommand::Quit
Quitted(c) ==
    /\ procs' = c.ps
    /\ last' = [NoObs("Quit") EXCEPT !.out = c.out, !.killed = c.killed]

Quit ==
    /\ session = "prompt"
    /\ Quitted(clean(inferior, procs))
    /\ session' = "done"
    /\ UNCHANGED <<target, inferior, breakpoints, mem, cpu, stack, wb, overflow_checks, list>>

\* Run, once Inferior::new returned Some(inferior): fill the slot and resume.
RunWake(spawn, c, n, d) ==
    Wake([Resumed("Run", d, n.x.cpu.rip) EXCEPT
             !.spawn = spawn, !.killed = c.killed, !.newSome = TRUE,
             !.newBps = n.x.bps, !.newMem = n.x.mem], d)

\* Run, once Inferior::new returned None (or panicked in an expect()).
RunFailed(spawn, c, n) ==
    /\ inferior' = inferior
    /\ procs' = n.ps
    /\ mem' = IF n.panic THEN n.x.mem ELSE mem
    /\ cpu' = IF n.panic THEN n.x.cpu ELSE cpu
    /\ session' = IF n.panic THEN "panicked" ELSE "prompt"
    /\ last' = [NoObs("Run") EXCEPT
                   !.spawn = spawn, !.killed = c.killed, !.list = breakpoints,
                   !.out = IF n.panic THEN "Failed to set breakpoint"
                           ELSE "Error starting subprocess",
                   !.ret = IF n.panic THEN "Panic" ELSE "None"]

RunNew(spawn, c, n, k1, k2) ==
    IF n.some
    THEN RunWake(spawn, c, n,
                 Debugger_wake_and_wait(Some(Len(n.ps), n.x.bps), n.ps, n.x.mem, n.x.cpu,
                                        k1, k2))
    ELSE RunFailed(spawn, c, n)

RunCleaned(spawn, c, k1, k2) ==
    RunNew(spawn, c, Inferior_new(target, breakpoints, spawn, c.ps), k1, k2)

\* DebuggerCommand::Run(args)
Run(spawn, k1, k2) ==
    /\ session = "prompt"
    /\ spawn # "spawnfail" => Len(procs) < MaxRuns
    /\ RunCleaned(spawn, clean(inferior, procs), k1, k2)
    /\ UNCHANGED <<target, breakpoints, stack, wb, overflow_checks, list>>

ContinueWake(d) == Wake(Resumed("Continue", d, cpu.rip), d)

\* DebuggerCommand::Continue
Continue(k1, k2) ==
    /\ session = "prompt"
    /\ IF ~inferior.some
       THEN /\ last' = [NoObs("Continue") EXCEPT !.out = "Inferior is not running"]
            /\ UNCHANGED <<session, inferior, procs, mem, cpu>>
       ELSE ContinueWake(Debugger_wake_and_wait(inferior, procs, mem, cpu, k1, k2))
    /\ UNCHANGED <<target, breakpoints, stack, wb, overflow_checks, list>>

\* The session after the unwrap() of the slot and print_backtrace: a panic
\* ends it, a loop that never ends hangs it.
Backtraced(res) ==
    /\ session' = CASE res.state = "Panic" -> "panicked"
                     [] res.state = "Hang" -> "hung"
                     [] OTHER -> "prompt"
    /\ last' = [NoObs("Backtrace") EXCEPT !.ret = res.state, !.frames = res.frames]

\* DebuggerCommand::Backtrace
Backtrace ==
    /\ session = "prompt"
    /\ Backtraced(IF ~inferior.some THEN BtResult("Panic", <<>>)
                  ELSE print_backtrace(IsLive(inferior, procs), cpu,
                                       stack @@ WordsOf(mem), dwarf_data))
    /\ UNCHANGED <<target, inferior, breakpoints, procs, mem, cpu, stack, wb, overflow_checks, list>>

\* Break on a present slot: inferior.set_breakpoint(addr) returned b.
BreakSet(b) ==
    /\ inferior' = Some(inferior.pid, b.x.bps)
    /\ mem' = b.x.mem
    /\ last' = [NoObs("Break") EXCEPT
                   !.out = IF b.ok THEN "Set breakpoint"
                           ELSE "Failed to set breakpoint in running inferior",
                   !.log = b.x.log]

\* DebuggerCommand::Break(arg), arg resolved to addr or to nothing.
Break(addr) ==
    /\ session = "prompt"
    /\ IF addr = NoAddr
       THEN /\ last' = [NoObs("Break") EXCEPT !.out = "Failed to parse"]
            /\ UNCHANGED <<breakpoints, inferior, mem>>
       ELSE /\ Len(breakpoints) < MaxBps
            /\ breakpoints' = Append(breakpoints, addr)
            /\ IF inferior.some
               THEN BreakSet(set_breakpoint(Proc(inferior, procs, mem, cpu), addr))
               ELSE /\ last' = [NoObs("Break") EXCEPT !.out = "Set breakpoint"]
                    /\ UNCHANGED <<inferior, mem>>
    /\ UNCHANGED <<session, target, procs, cpu, stack, wb, overflow_checks, list>>

Next ==
    \/ Quit
    \/ \E spawn \in {"ok", "spawnfail", "nostop"}, k1, k2 \in BOOLEAN : Run(spawn, k1, k2)
    \/ \E k1, k2 \in BOOLEAN : Continue(k1, k2)
    \/ Backtrace
    \/ \E addr \in BpAddrs \cup {NoAddr} : Break(addr)

Spec == Init /\ [][Next]_vars

(* ----------------------- the unwinder on deep stacks -------------------- *)
\* The stack memory: MaxFrames frames above MainFrame, each the saved base
\* pointer at its base and the return address one word above.
StackSlots == {MainFrame + WordSize * i : i \in 0 .. (2 * MaxFrames - 1)}
\* Base pointers: the bases of the frames, and one beyond the mapped stack.
StackBases == {MainFrame + 2 * WordSize * i : i \in 0 .. MaxFrames}
\* Code addresses: one without debug information, one in main, one in helper.
CodeAddrs == {Entry - 4, Entry + 1, Entry + 4}
Stacks ==
    {w \in [StackSlots -> StackBases \cup CodeAddrs] :
        \A b \in StackBases \cap StackSlots :
            w[b] \in StackBases /\ w[b + WordSize] \in CodeAddrs}

\* The inferior of a Run is stopped (or already gone) somewhere in a target
\* with nested calls.
InitBT ==
    /\ session = "prompt"
    /\ target = [image |-> ProgInc, loops |-> 0]
    /\ inferior = Some(1, EmptyBps)
    /\ breakpoints = <<>>
    /\ procs \in {<<"live">>, <<"reaped">>}
    /\ mem = target.image
    /\ cpu \in {[InitCpu(0) EXCEPT !.rip = ip, !.rbp = bp] :
                   ip \in CodeAddrs, bp \in StackBases}
    /\ last = NoObs("Run")
    /\ stack \in Stacks
    /\ wb = WbIdle(target.image)
    /\ overflow_checks \in BOOLEAN
    /\ list = NewList

SpecBT == InitBT /\ [][Backtrace]_vars

(* --------------------------- write_byte alone --------------------------- *)
\* Memories: a target, one with all bytes of a word different, one full of traps.
WbMems == {ProgInc, [a \in Addr |-> a + 1], [a \in Addr |-> INT3]}
WbVals == {0, INT3, INC, 255}

InitWB ==
    /\ session = "prompt"
    /\ target = [image |-> ProgInc, loops |-> 0]
    /\ inferior = Some(1, EmptyBps)
    /\ breakpoints = <<>>
    /\ procs = <<"live">>
    /\ mem \in WbMems
    /\ cpu = InitCpu(0)
    /\ last = NoObs("Run")
    /\ stack = NoStack
    /\ wb \in {[WbIdle(mem) EXCEPT !.phase = "input", !.addr = a, !.val = v] :
                  a \in 0 .. MemSize, v \in WbVals}
    /\ overflow_checks \in BOOLEAN
    /\ list = NewList

Written(phase, r) ==
    /\ mem' = r.x.mem
    /\ wb' = [wb EXCEPT !.phase = phase, !.ok = r.ok, !.orig = r.orig, !.log = r.x.log]

\* self.write_byte(addr, val)
WriteByte ==
    /\ wb.phase = "input"
    /\ Written("written", write_byte(Proc(inferior, procs, mem, cpu), wb.addr, wb.val))
    /\ UNCHANGED <<session, target, inferior, breakpoints, procs, cpu, last, stack,
                 overflow_checks, list>>

\* self.write_byte(addr, b), b the byte the first call returned
RestoreByte ==
    /\ wb.phase = "written"
    /\ wb.ok
    /\ Written("restored", write_byte(Proc(inferior, procs, mem, cpu), wb.addr, wb.orig))
    /\ UNCHANGED <<session, target, inferior, breakpoints, procs, cpu, last, stack,
                 overflow_checks, list>>

NextWB == WriteByte \/ RestoreByte

SpecWB == InitWB /\ [][NextWB]_vars

(* --------------------------- LinkedList alone --------------------------- *)
InitLL ==
    /\ session = "prompt"
    /\ target = [image |-> ProgInc, loops |-> 0]
    /\ inferior = None
    /\ breakpoints = <<>>
    /\ procs = <<>>
    /\ mem = target.image
    /\ cpu = InitCpu(0)
    /\ last = NoObs("")
    /\ stack = NoStack
    /\ wb = WbIdle(target.image)
    /\ overflow_checks \in BOOLEAN
    /\ list = NewList

ListUnchanged ==
    UNCHANGED <<session, target, inferior, breakpoints, procs, mem, cpu, last, stack, wb,
                overflow_checks>>

\* list.push_front(value), the values being numbered in the order of the pushes
PushFront ==
    /\ list.pushes < MaxPushes
    /\ list' = [list EXCEPT !.l = push_front(@, list.pushes + 1),
                            !.pushes = @ + 1,
                            !.op = "push_front",
                            !.unpopped = @ \cup {list.pushes + 1}]
    /\ ListUnchanged

Popped(r) ==
    list' = [list EXCEPT !.l = r.l, !.op = "pop_front", !.ret = r.ret,
                         !.popFrom = list.unpopped,
                         !.unpopped = @ \ {r.ret}]

\* list.pop_front()
PopFront ==
    /\ Popped(pop_front(list.l))
    /\ ListUnchanged

NextLL == PushFront \/ PopFront

SpecLL == InitLL /\ [][NextLL]_vars

(* ------------------------------ properties ------------------------------ *)
Range(q) == {q[i] : i \in 1 .. Len(q)}
Ops(log) == [i \in 1 .. Len(log) |-> log[i].op]
Count(log, o) == Cardinality({i \in 1 .. Len(log) : log[i].op = o})
LivePids == {p \in 1 .. Len(procs) : procs[p] = "live"}
WasResume == last.cmd \in {"Run", "Continue"} /\ last.ret = "Ok"
NoOutsideKill(obs) == obs.status.sig # "SIGKILL" /\ obs.stepStatus.sig # "SIGKILL"

\* C1: while the inferior is live, the byte saved for every breakpoint address
\* in the Inferior's table is the byte the target had at that address before
\* any trap was written there; a resume never replaces it by the trap byte.
C1_SavedByteIsOriginal ==
    IsLive(inferior, procs) =>
        \A a \in DOMAIN inferior.bps : inferior.bps[a] = target.image[a]

\* C2: the inferior has just stopped on the trap at A (pc = A + 1); the next
\* resume, when no outside signal interferes, executes the original
\* instruction at A exactly once, and stops at the same breakpoint again when
\* A is the only breakpoint and the loop comes back to it.
C2_AtTrap(A) ==
    /\ WasResume
    /\ IsLive(inferior, procs)
    /\ A \in Range(breakpoints)
    /\ target.image[A] # INT3
    /\ last.status = Stopped("SIGTRAP", A + 1)

C2_StepOverRunsOnce ==
    [][\A A \in Addr :
          (/\ C2_AtTrap(A)
           /\ last'.cmd = "Continue"
           /\ last'.ret = "Ok"
           /\ NoOutsideKill(last'))
          => /\ cpu'.execs[A] = cpu.execs[A] + 1
             /\ (Range(breakpoints) = {A} /\ A = LoopTarget /\ cpu.loops > 0)
                    => last'.status = Stopped("SIGTRAP", A + 1)]_vars

\* C3: with the single breakpoint A on the program's path, Run returns
\* Stopped with pc = A + 1, and when the next resume ends in an exit, the exit
\* code is the one the target gives when it runs with its own instructions.
C3_FirstStop(A) ==
    /\ last.cmd = "Run"
    /\ last.ret = "Ok"
    /\ breakpoints = <<A>>
    /\ A \in {LoopTarget, LoopTarget + 1}
    /\ NoOutsideKill(last)

C3_Scenario ==
    [][\A A \in Addr :
          C3_FirstStop(A)
          => /\ last.status = Stopped("SIGTRAP", A + 1)
             /\ (last'.cmd = "Continue" /\ last'.status.kind = "Exited")
                    => last'.status = NativeExit(target.image, target.loops)]_vars

\* C4: when the wait after the single step reports an exit or a death by
\* signal, resume returns that status at once: the wait of the step is the last
\* request, no trap byte is written after the step, no continue is issued.
C4_StepEnded == WasResume /\ last.hit /\ last.stepStatus.kind \in {"Exited", "Signaled"}

C4_StepExitReturnsAtOnce ==
    C4_StepEnded =>
        /\ last.status = last.stepStatus
        /\ ~last.contIssued
        /\ Count(last.log, "cont") = 0
        /\ Count(last.log, "wait") = 1
        /\ \E i \in 1 .. Len(last.log) :
              /\ last.log[i].op = "step"
              /\ i + 1 = Len(last.log)
              /\ last.log[i + 1].op = "wait"

C4_Witness == C4_StepEnded /\ last.stepStatus = Signaled("SIGKILL")

\* C5: a resume that reads the registers steps over (writes registers, single
\* steps) exactly when instruction_pointer - 1 is a key of the table with a
\* saved byte; otherwise it issues one continue and then one wait, nothing else
\* after the register read.
C5_Key ==
    /\ (last.ip - 1) \in DOMAIN last.lookupBps
    /\ last.lookupBps[last.ip - 1] # NoByte

C5_SteppedOver == Count(last.log, "setregs") > 0 \/ Count(last.log, "step") > 0

C5_StepOverIffArmed ==
    WasResume =>
        /\ C5_SteppedOver <=> C5_Key
        /\ C5_Key => Count(last.log, "setregs") = 1 /\ Count(last.log, "step") = 1
        /\ ~C5_Key =>
              /\ Count(last.log, "cont") = 1
              /\ Count(last.log, "wait") = 1
              /\ SubSeq(Ops(last.log), Len(last.log) - 2, Len(last.log))
                    = <<"getregs", "cont", "wait">>

C5_Witness == WasResume /\ C5_Key /\ C5_SteppedOver /\ last.cmd = "Continue"

\* C6: after Inferior::new returned Some, every address of the list holds the
\* trap byte and the table maps it to the byte the target had there.
C6_LaunchInstallsAll ==
    (last.cmd = "Run" /\ last.newSome) =>
        \A a \in Range(last.list) :
            /\ a \in Addr
            /\ last.newMem[a] = INT3
            /\ a \in DOMAIN last.newBps
            /\ last.newBps[a] = target.image[a]

\* C7: whenever ptrace::cont is issued, every address of the Debugger's list
\* holds the trap byte in the inferior's memory.
C7_TrapsArmedAtCont ==
    last.contIssued =>
        \A a \in Range(last.list) : a \in Addr /\ last.contMem[a] = INT3

C7_Witness ==
    /\ last.contIssued
    /\ last.hit
    /\ Len(last.list) = 2
    /\ last.list[1] # last.list[2]

\* C8: at most one inferior process is live, and none once Quit was handled.
C8_AtMostOneLive ==
    /\ Cardinality(LivePids) <= 1
    /\ session = "done" => LivePids = {}

C8_Witness ==
    /\ last.cmd = "Run"
    /\ last.killed = 1
    /\ Len(procs) = 2
    /\ procs[1] = "zombie"
    /\ procs[2] = "live"

\* C9: at the prompt the inferior slot is present exactly when its process
\* is alive.
C9_SlotPresentIffAlive ==
    session = "prompt" => (inferior.some <=> IsLive(inferior, procs))

\* C10: after a Run whose launch failed the failure is reported, the slot
\* is empty and no breakpoint byte was patched.
C10_FailedLaunchLeavesNoInferior ==
    (last.cmd = "Run" /\ last.spawn \in {"spawnfail", "nostop"}) =>
        /\ last.out = "Error starting subprocess"
        /\ ~inferior.some
        /\ last.newMem = target.image

\* C11: a resume called on an inferior whose process was killed or has exited
\* returns an error to the caller: it waits for nothing and does not panic,
\* with an empty and with a non-empty breakpoint list.
C11_DeadAtPrompt == session = "prompt" /\ inferior.some /\ ~IsLive(inferior, procs)

C11_DeadResumeFailsFast ==
    [][(C11_DeadAtPrompt /\ last'.cmd = "Continue")
          => /\ last'.ret = "Err"
             /\ Count(last'.log, "wait") = 0
             /\ session' = "prompt"]_vars

\* C12: no sequence of commands ends the session abnormally: after every
\* command the session is back in the command loop, and the loop has ended
\* only when the command was Quit.
C12_SessionNeverAborts ==
    /\ session \in {"prompt", "done"}
    /\ session = "done" => last.cmd = "Quit"

\* C13: the status a resume returns is the one of the last waitpid it made:
\* Exited with the exit code, Signaled with the signal, or Stopped with the
\* signal and the inferior's instruction pointer at that stop.
C13_LastWait == last.waits[Len(last.waits)]

C13_StatusOfLastWait ==
    WasResume =>
        /\ Len(last.waits) >= 1
        /\ Len(last.waits) = Count(last.log, "wait")
        /\ last.log[Len(last.log)].op = "wait"
        /\ CASE C13_LastWait.kind = "Exited" -> last.status = Exited(C13_LastWait.code)
             [] C13_LastWait.kind = "Signaled" -> last.status = Signaled(C13_LastWait.sig)
             [] C13_LastWait.kind = "Stopped" ->
                  last.status = Stopped(C13_LastWait.sig, cpu.rip)
             [] OTHER -> FALSE

C13_Witness ==
    /\ WasResume
    /\ Len(last.waits) = 2
    /\ C13_LastWait = WStopped("SIGTRAP")
    /\ last.status.pc = LoopTarget + 1

\* C19: a resume steps over (rewinds the instruction pointer) only when the
\* inferior's last stop was caused by executing the trap at
\* instruction_pointer - 1; the initial stop of a launch is no such stop.
C19_StepOverOnlyAfterTrap ==
    [][/\ (last'.cmd = "Continue" /\ last'.hit) => cpu.trapped = cpu.rip - 1
       /\ last'.cmd = "Run" => ~last'.hit]_vars

\* C20: a resume that finds the inferior just past the armed breakpoint at A
\* issues, after reading the registers: the write of the saved byte at A, the
\* register write with rip = A, one single step, one wait, then, only when
\* the step ended in a stop, the write of the trap byte at A, one continue and
\* one wait; at the continue the trap byte is in place at A.
C20_From(log, i) == SubSeq(log, i, Len(log))
C20_Tail == C20_From(last.log, CHOOSE i \in 1 .. Len(last.log) : last.log[i].op = "getregs")
C20_A == last.ip - 1

C20_StepOverOrder ==
    (WasResume /\ last.hit) =>
        /\ Count(last.log, "getregs") = 1
        /\ SubSeq(C20_Tail, 1, 6)
              = <<Op("getregs"), Peek(align_addr_to_word(C20_A)),
                  Poke(C20_A, last.lookupBps[C20_A]), SetRegs(C20_A), Op("step"),
                  Op("wait")>>
        /\ IF last.stepStatus.kind = "Stopped"
           THEN /\ SubSeq(C20_Tail, 7, Len(C20_Tail))
                      = <<Peek(align_addr_to_word(C20_A)), Poke(C20_A, INT3), Op("cont"),
                          Op("wait")>>
                /\ last.contIssued
                /\ last.contMem[C20_A] = INT3
           ELSE Len(C20_Tail) = 6 /\ ~last.contIssued

C20_Witness ==
    /\ WasResume
    /\ last.hit
    /\ last.stepStatus.kind = "Stopped"
    /\ last.contIssued
    /\ last.cmd = "Continue"
    /\ last.status.kind = "Exited"

\* C14: when the frame chain from the registers reaches a frame in "main",
\* the backtrace returns Ok and has printed exactly the frames of the chain,
\* in order: the first from the registers, each next one with the return
\* address from (base pointer + 8) and the base pointer from (base pointer),
\* the first frame in "main" being the last one printed.
RECURSIVE C14_Chain(_, _, _, _)
C14_Cons(ip, bp, rest) == IF rest = <<>> THEN <<>> ELSE << <<ip, bp>> >> \o rest

C14_Chain(words, ip, bp, n) ==
    IF get_function_from_addr(dwarf_data, ip) = "main" THEN << <<ip, bp>> >>
    ELSE IF n = 0 \/ bp \notin DOMAIN words \/ (bp + 8) \notin DOMAIN words THEN <<>>
    ELSE C14_Cons(ip, bp, C14_Chain(words, words[bp + 8], words[bp], n - 1))

C14_ChainToMain == C14_Chain(stack @@ WordsOf(mem), cpu.rip, cpu.rbp, MaxFrames + 1)
C14_Printed == [i \in 1 .. Len(last.frames) |-> <<last.frames[i].ip, last.frames[i].bp>>]

C14_BacktraceToMain ==
    (last.cmd = "Backtrace" /\ IsLive(inferior, procs) /\ C14_ChainToMain # <<>>) =>
        /\ last.ret = "Ok"
        /\ C14_Printed = C14_ChainToMain
        /\ \A i \in 1 .. Len(last.frames) :
              (last.frames[i].func = "main") <=> (i = Len(last.frames))

\* C15: the backtrace ends on every frame chain, a cyclic one included, and
\* a failed memory read ends it with an error, back at the prompt.
C15_WalkTerminates ==
    last.cmd = "Backtrace" =>
        /\ session # "hung"
        /\ last.ret = "Err" => session = "prompt"

\* C16: a frame whose address has no line or no function does not abort the
\* session during a backtrace of an existing inferior.
C16_SymbolMissNoAbort ==
    (last.cmd = "Backtrace" /\ inferior.some) => session # "panicked"

\* C17: write_byte(addr, 0xcc) followed by write_byte(addr, b), b the byte
\* the first call returned, leaves the memory as it was before the first call.
C17_RestoreIsIdentity ==
    (wb.phase = "restored" /\ wb.val = INT3) => (wb.ok /\ mem = wb.before)

C17_Witness ==
    /\ wb.phase = "restored"
    /\ wb.val = INT3
    /\ wb.addr % WordSize = 5
    /\ wb.before[wb.addr] \notin {INT3, wb.before[wb.addr - 5]}

\* C18: write_byte(addr, value) on a mapped address returns the byte that was
\* at addr, leaves value at addr and every other byte as it was, and reads the
\* word at the multiple of the word size at or just below addr.
C18_Aligned == CHOOSE a \in Addr : a % WordSize = 0 /\ wb.addr \in a .. (a + WordSize - 1)

C18_WriteByteFrame ==
    (wb.phase = "written" /\ wb.addr \in Addr) =>
        /\ wb.ok
        /\ wb.orig = wb.before[wb.addr]
        /\ mem[wb.addr] = wb.val
        /\ \A a \in Addr \ {wb.addr} : mem[a] = wb.before[a]
        /\ wb.log = <<Peek(C18_Aligned), Poke(wb.addr, wb.val)>>

C18_Witness ==
    /\ wb.phase = "written"
    /\ wb.ok
    /\ wb.addr % WordSize = 3
    /\ wb.before[wb.addr] \notin {0, wb.val}
    /\ wb.val = INC

\* C21: a resume of a live inferior stopped with instruction pointer 0
\* computes instruction_pointer - 1 without underflow and performs an
\* ordinary continue: one continue, one wait, no step-over, no panic.
C21_StoppedAtZero ==
    /\ session = "prompt"
    /\ IsLive(inferior, procs)
    /\ cpu.rip = 0
    /\ Range(breakpoints) \subseteq Addr

C21_NoUnderflowAtZero ==
    [][(C21_StoppedAtZero /\ last'.cmd = "Continue")
          => /\ session' = "prompt"
             /\ last'.ret = "Ok"
             /\ ~last'.hit
             /\ Count(last'.log, "cont") = 1
             /\ Count(last'.log, "wait") = 1]_vars

\* C22: after any pushes and pops from new(), get_size() is the number of
\* nodes reachable from head and is_empty() holds exactly when there is none;
\* pop_front on the empty list returns None and leaves the size 0, on a
\* non-empty list it returns the value pushed last among those not yet popped.
RECURSIVE C22_Nodes(_)
C22_Nodes(h) == IF h.some THEN 1 + C22_Nodes(h.next) ELSE 0

C22_Newest(vs) == CHOOSE v \in vs : \A w \in vs : w <= v

C22_SizeAndOrder ==
    /\ get_size(list.l) = C22_Nodes(list.l.head)
    /\ is_empty(list.l) <=> C22_Nodes(list.l.head) = 0
    /\ C22_Nodes(list.l.head) = Cardinality(list.unpopped)
    /\ list.op = "pop_front" =>
          IF list.popFrom = {}
          THEN list.ret = NoValue /\ get_size(list.l) = 0
          ELSE list.ret = C22_Newest(list.popFrom)

C22_Witness ==
    /\ list.op = "pop_front"
    /\ list.popFrom = {1, 3}
    /\ list.ret = 3
    /\ get_size(list.l) = 1

====
